---- MODULE Spec2Model ----
(***************************************************************************)
(* A model of helenservice.api_client.HelenApiClient: the session fields,  *)
(* the five memoized fetch operations (cachetools.cached over TTLCache),   *)
(* the request-window arithmetic and the impact calculation.               *)
(*                                                                         *)
(* Three specifications share the variables:                               *)
(*   SpecPure     the pure computations (windows, impact, base price),     *)
(*                applied to inputs drawn in Init;                         *)
(*   SpecSession  login / is_session_valid / close against the wall clock; *)
(*   Spec         the fetch operations, their caches and the upstream.     *)
(* Numbers are exact (rationals as num/den pairs): floating-point rounding *)
(* of the Python code is not modelled.                                     *)
(***************************************************************************)
EXTENDS Integers, Sequences, FiniteSets, TLC

VARIABLES
    wall,                 \* datetime.now(): wall clock, in seconds
    mono,                 \* time.monotonic(): the timer of every TTLCache, in seconds
    latest_login_time,    \* HelenApiClient._latest_login_time (None or a wall time)
    session,              \* HelenApiClient._session (None or the id of a HelenSession)
    closed,               \* the set of HelenSession ids whose close() has run
    cache,                \* the TTLCache of each fetch operation
    call,                 \* the operation being applied and its arguments
    ret,                  \* the outcome of the last operation
    sent,                 \* the HTTP requests the last operation issued, in order
    hist,                 \* history (ghost) of the calls made, for the properties
    scope                 \* the fetch operations the caller of this run uses

vars == <<wall, mono, latest_login_time, session, closed, cache,
          call, ret, sent, hist, scope>>

\* Python's None, for the fields that otherwise hold a time or a session id
None == -1

\* timedelta(hours=1), in seconds
HOUR == 3600

Min(a, b) == IF a <= b THEN a ELSE b

\* builtin abs()
Abs(x) == IF x < 0 THEN -x ELSE x

(***************************************************************************)
(* Calendar arithmetic: datetime / calendar / dateutil.relativedelta.      *)
(***************************************************************************)

\* calendar.isleap
isleap(year) == year % 4 = 0 /\ (year % 100 # 0 \/ year % 400 = 0)

\* calendar.monthrange(year, month)[-1]: the number of days of the month
monthrange_last(year, month) ==
    IF month = 2 THEN (IF isleap(year) THEN 29 ELSE 28)
    ELSE IF month \in {4, 6, 9, 11} THEN 30 ELSE 31

Date(y, m, d) == [year |-> y, month |-> m, day |-> d]

MinusOneMonthSameYear(d) ==
    LET m == IF d.month = 1 THEN 12 ELSE d.month - 1
    IN  Date(d.year, m, Min(d.day, monthrange_last(d.year, m)))

\* d + relativedelta(months=-1): one month back, the day clamped to the
\* length of the month reached
MinusOneMonth(d) ==
    LET y == IF d.month = 1 THEN d.year - 1 ELSE d.year
        m == IF d.month = 1 THEN 12 ELSE d.month - 1
    IN  Date(y, m, Min(d.day, monthrange_last(y, m)))

MinusOneDaySameMonth(d) ==
    IF d.day > 1 THEN Date(d.year, d.month, d.day - 1)
    ELSE Date(d.year, d.month, monthrange_last(d.year, d.month))

\* d + relativedelta(days=-1): the previous calendar day
MinusOneDay(d) ==
    IF d.day > 1 THEN Date(d.year, d.month, d.day - 1)
    ELSE IF d.month > 1
         THEN Date(d.year, d.month - 1, monthrange_last(d.year, d.month - 1))
         ELSE Date(d.year - 1, 12, 31)

(***************************************************************************)
(* Strings are sequences of one-character strings.                         *)
(***************************************************************************)

DigitChar(n) == <<"0", "1", "2", "3", "4", "5", "6", "7", "8", "9">>[n + 1]

\* f"{n}" for a non-negative int: decimal, no padding
RECURSIVE IntStr(_)
IntStr(n) == IF n < 10 THEN <<DigitChar(n)>>
             ELSE IntStr(n \div 10) \o <<DigitChar(n % 10)>>

\* "%0<w>d" % n
RECURSIVE ZeroPad(_, _)
ZeroPad(n, w) == IF Len(IntStr(n)) >= w THEN IntStr(n)
                 ELSE <<"0">> \o ZeroPad(n, w - 1)

\* str(date) = date.isoformat(): YYYY-MM-DD
DateStr(d) == ZeroPad(d.year, 4) \o <<"-">> \o ZeroPad(d.month, 2)
              \o <<"-">> \o ZeroPad(d.day, 2)

DailyStartSuffix ==
    <<"T", "2", "1", ":", "0", "0", ":", "0", "0", ".", "0", "0", "0", "Z">>
DailyEndSuffix ==
    <<"T", "2", "0", ":", "5", "9", ":", "5", "9", ".", "9", "9", "9", "Z">>
HourlyStartSuffix ==
    <<"T", "2", "2", ":", "0", "0", ":", "0", "0", "+", "0", "0", ":", "0", "0">>
HourlyEndSuffix ==
    <<"T", "2", "1", ":", "5", "9", ":", "5", "9", "+", "0", "0", ":", "0", "0">>

(***************************************************************************)
(* The request windows.                                                    *)
(***************************************************************************)

\* get_daily_measurements_by_month, the window: today is datetime.today()
DailyWindow(today, month) ==
    LET wanted_month_first_day == Date(today.year, month, 1)
        wanted_month_last_day ==
            Date(today.year, month,
                 monthrange_last(wanted_month_first_day.year, month))
        previous_month == MinusOneMonth(wanted_month_last_day)
        previous_month_last_day ==
            Date(previous_month.year, previous_month.month,
                 monthrange_last(previous_month.year, previous_month.month))
    IN  [begin |-> IntStr(previous_month_last_day.year) \o <<"-">>
                   \o IntStr(previous_month_last_day.month) \o <<"-">>
                   \o IntStr(previous_month_last_day.day) \o DailyStartSuffix,
         end   |-> IntStr(wanted_month_last_day.year) \o <<"-">>
                   \o IntStr(wanted_month_last_day.month) \o <<"-">>
                   \o IntStr(wanted_month_last_day.day) \o DailyEndSuffix,
         resolution |-> "day"]

\* variant: the window begins in the year asked for
MonthlyWindowSameYear(year) ==
    [begin |-> IntStr(year)
               \o <<"-", "1", "2", "-", "3", "1">> \o HourlyStartSuffix,
     end   |-> IntStr(year)
               \o <<"-", "1", "2", "-", "3", "1">> \o HourlyEndSuffix,
     resolution |-> "month"]

\* get_monthly_measurements_by_year, the window
MonthlyWindow(year) ==
    LET last_year == year - 1
    IN  [begin |-> IntStr(last_year)
                   \o <<"-", "1", "2", "-", "3", "1">> \o HourlyStartSuffix,
         end   |-> IntStr(year)
                   \o <<"-", "1", "2", "-", "3", "1">> \o HourlyEndSuffix,
         resolution |-> "month"]

\* get_hourly_measurements_between_dates, the window
HourlyMeasurementsWindow(start, end) ==
    LET previous_day == MinusOneDay(start)
    IN  [begin |-> DateStr(previous_day) \o HourlyStartSuffix,
         end   |-> DateStr(end) \o HourlyEndSuffix,
         resolution |-> "hour"]

\* get_hourly_spot_prices_between_dates, the window
HourlySpotPricesWindow(start, end) ==
    LET previous_day == MinusOneDay(start)
    IN  [begin |-> DateStr(previous_day) \o HourlyStartSuffix,
         end   |-> DateStr(end) \o HourlyEndSuffix,
         resolution |-> "hour"]

(***************************************************************************)
(* Outcomes of an operation: a returned value or a raised exception.       *)
(***************************************************************************)

NoOutcome == [kind |-> "none"]
Return(v) == [kind |-> "ok", value |-> v]
Raise(e) == [kind |-> "error", error |-> e]

(***************************************************************************)
(* Exact rational arithmetic for the impact calculation.                   *)
(***************************************************************************)

RECURSIVE GCD(_, _)
GCD(a, b) == IF b = 0 THEN a ELSE GCD(b, a % b)

\* n/d in lowest terms, d > 0
Rat(n, d) ==
    LET g == GCD(Abs(n), Abs(d))
        s == IF d < 0 THEN -1 ELSE 1
    IN  [num |-> (s * n) \div g, den |-> (s * d) \div g]

RatOfInt(n) == [num |-> n, den |-> 1]
RatMul(a, b) == Rat(a.num * b.num, a.den * b.den)
RatSub(a, b) == Rat(a.num * b.den - b.num * a.den, a.den * b.den)
\* a / b, b # 0
RatDiv(a, b) == Rat(a.num * b.den, a.den * b.num)

\* sum(map(lambda x: abs(x.value), xs))
RECURSIVE SumAbs(_)
SumAbs(xs) == IF xs = <<>> THEN 0 ELSE Abs(Head(xs)) + SumAbs(Tail(xs))

\* builtin sum() of a list of numbers
RECURSIVE Sum(_)
Sum(xs) == IF xs = <<>> THEN 0 ELSE Head(xs) + Sum(Tail(xs))

\* min(hourly_prices.__len__(), hourly_measurements.__len__())
SeriesLengthOffByOne(hourly_prices, hourly_measurements) ==
    LET n == Min(Len(hourly_prices), Len(hourly_measurements))
    IN  IF n > 0 THEN n - 1 ELSE 0

SeriesLength(hourly_prices, hourly_measurements) ==
    Min(Len(hourly_prices), Len(hourly_measurements))

\* the loop of calculate_impact_of_usage_between_dates: one product per
\* index below length
WeightedPricesNoAbs(hourly_prices, hourly_measurements, length) ==
    [i \in 1..length |-> hourly_prices[i] * Abs(hourly_measurements[i])]

WeightedPrices(hourly_prices, hourly_measurements, length) ==
    [i \in 1..length |-> Abs(hourly_prices[i]) * Abs(hourly_measurements[i])]

\* the / operator: ZeroDivisionError on a zero divisor
DivideZeroAsZero(a, b) ==
    IF b.num = 0 THEN Return(RatOfInt(0)) ELSE Return(RatDiv(a, b))

Divide(a, b) ==
    IF b.num = 0 THEN Raise("ZeroDivisionError") ELSE Return(RatDiv(a, b))

\* calculate_impact_of_usage_between_dates on the two fetched series (the
\* .value of every measurement). An exception of a division ends the
\* operation. The locals are kept beside the result.
CalculateImpact(hourly_prices, hourly_measurements) ==
    LET length == SeriesLength(hourly_prices, hourly_measurements)
        hourly_weighted_consumption_prices ==
            WeightedPrices(hourly_prices, hourly_measurements, length)
        monthly_average_price ==
            Divide(RatOfInt(SumAbs(hourly_prices)), RatOfInt(Len(hourly_prices)))
    IN  IF monthly_average_price.kind = "error" THEN monthly_average_price
        ELSE
        LET total_consumption == SumAbs(hourly_measurements)
            total_hourly_weighted_consumption_prices ==
                Sum(hourly_weighted_consumption_prices)
            total_consumption_average_price ==
                RatMul(monthly_average_price.value, RatOfInt(total_consumption))
            impact ==
                Divide(RatSub(RatOfInt(total_hourly_weighted_consumption_prices),
                              total_consumption_average_price),
                       RatOfInt(total_consumption))
        IN  IF impact.kind = "error" THEN impact
            ELSE [kind |-> "ok",
                  value |-> impact.value,
                  length |-> length,
                  monthly_average_price |-> monthly_average_price.value,
                  total_consumption |-> total_consumption,
                  total_hourly_weighted_consumption_prices |->
                      total_hourly_weighted_consumption_prices]

(***************************************************************************)
(* Contract data.                                                          *)
(***************************************************************************)

FirstComponent(contract_components) ==
    IF contract_components = <<>> THEN Raise("StopIteration")
    ELSE Return(Head(contract_components))

\* next(filter(lambda component: component["is_base_price"], components)):
\* the first flagged component, StopIteration when there is none
RECURSIVE NextBasePriceComponent(_)
NextBasePriceComponent(contract_components) ==
    IF contract_components = <<>> THEN Raise("StopIteration")
    ELSE IF Head(contract_components).is_base_price
         THEN Return(Head(contract_components))
         ELSE NextBasePriceComponent(Tail(contract_components))

\* get_contract_base_price on the components of contract_data[0]["products"][0]
ContractBasePrice(contract_components) ==
    LET base_price_component == NextBasePriceComponent(contract_components)
    IN  IF base_price_component.kind = "error" THEN base_price_component
        ELSE Return(base_price_component.value.price)

(***************************************************************************)
(* cachetools: TTLCache and the cached decorator.  A cache is the sequence *)
(* of its entries, least recently used first; an entry is                  *)
(* [key, value, expires].                                                  *)
(***************************************************************************)

\* the five memoized fetch operations
Ops == {"daily", "monthly", "hourly", "spot", "contract"}

\* TTLCache(ttl=3600), in seconds of time.monotonic()
TTL == 3600

\* TTLCache(maxsize=...)
MaxSize(op) == IF op \in {"monthly", "contract"} THEN 2 ELSE 4

HasKey(c, key) == \E i \in 1..Len(c) : c[i].key = key
EntryOf(c, key) == c[CHOOSE i \in 1..Len(c) : c[i].key = key]
Without(c, key) == SelectSeq(c, LAMBDA e : e.key # key)

\* variant: an entry is taken for expired from half its lifetime on
IsExpiredAfterHalfTTL(e, time) == ~(time < e.expires - TTL \div 2)

\* TTLCache: an entry is expired when not (timer() < link.expires)
IsExpired(e, time) == ~(time < e.expires)

\* TTLCache.expire(time): drop every expired entry
TTLCache_expire(c, time) == SelectSeq(c, LAMBDA e : ~IsExpired(e, time))

\* variant: a read leaves the order of the entries alone (first in, first out)
TTLCache_getitem_NoMove(c, key, time) ==
    IF ~HasKey(c, key) THEN [cache |-> c, hit |-> FALSE]
    ELSE IF IsExpired(EntryOf(c, key), time) THEN [cache |-> c, hit |-> FALSE]
    ELSE [cache |-> c, hit |-> TRUE, value |-> EntryOf(c, key).value]

\* TTLCache.__getitem__(key): the key becomes the most recently used (even
\* when its entry has expired); a missing or expired key is a KeyError
TTLCache_getitem(c, key, time) ==
    IF ~HasKey(c, key) THEN [cache |-> c, hit |-> FALSE]
    ELSE LET e == EntryOf(c, key)
             moved == Without(c, key) \o <<e>>
         IN  IF IsExpired(e, time) THEN [cache |-> moved, hit |-> FALSE]
             ELSE [cache |-> moved, hit |-> TRUE, value |-> e.value]

\* TTLCache.popitem(): expire, then remove the least recently used entry
TTLCache_popitem(c, time) == Tail(TTLCache_expire(c, time))

\* variant: nothing is removed to make room
MakeRoomNever(c, time, maxsize) == c

\* Cache.__setitem__'s loop: while currsize + 1 > maxsize: popitem()
RECURSIVE MakeRoom(_, _, _)
MakeRoom(c, time, maxsize) ==
    IF Len(c) + 1 > maxsize THEN MakeRoom(TTLCache_popitem(c, time), time, maxsize)
    ELSE c

\* TTLCache.__setitem__(key, value): expire, make room for a new key, store,
\* and link the key as the most recently used with expires = time + ttl
TTLCache_setitem(c, key, value, time, maxsize) ==
    LET live == TTLCache_expire(c, time)
        room == IF HasKey(live, key) THEN live ELSE MakeRoom(live, time, maxsize)
    IN  Without(room, key)
        \o <<[key |-> key, value |-> value, expires |-> time + TTL]>>

(***************************************************************************)
(* The upstream: what one HTTP GET can do.                                 *)
(*   exception   requests raises (connection failure, read timeout)        *)
(*   ok          2xx, a JSON body of the expected shape                    *)
(*   not_json    2xx, a body that is not JSON                              *)
(*   non_2xx     an error status with a JSON error body: JSON, and not of  *)
(*               the expected shape                                        *)
(***************************************************************************)
HttpOutcomes == {"exception", "ok", "not_json", "non_2xx"}

\* the response a request gets at a time: the body's kind, and when and for
\* what it was produced
\* The delivery site id the upstream has in the first contract of the list:
\* the list changes once, an hour into the run.
UpstreamSite(time) == IF time < HOUR THEN 1 ELSE 2

Response(op, key, http, time) ==
    IF op = "contract"
    THEN [op |-> op, key |-> key, body |-> http, at |-> time,
          site |-> UpstreamSite(time)]
    ELSE [op |-> op, key |-> key, body |-> http, at |-> time]

\* contract_data[0]["delivery_site"]["id"] of a contract list
DeliverySite(contract_data) == contract_data.site

\* variant: the token is read once, from the first session
ApiRequestHeadersFirstSession(sess) ==
    IF sess = None THEN Raise("AttributeError")
    ELSE Return([Authorization |-> 1])

\* _api_request_headers: the token of self._session; None has no
\* get_access_token
ApiRequestHeaders(sess) ==
    IF sess = None THEN Raise("AttributeError")
    ELSE Return([Authorization |-> sess])

\* get(...).json() of get_contract_data_json: the status is not looked at,
\* any JSON body is the result
ContractJson(response) ==
    IF response.body = "exception" THEN Raise("RequestException")
    ELSE IF response.body = "not_json" THEN Raise("JSONDecodeError")
    ELSE Return(response)

\* the constructors MeasurementResponse(**fields) and
\* SpotPricesResponse(**fields): fields of another shape than the expected
\* one are refused
MeasurementResponse(response) ==
    IF response.body # "ok" THEN Raise("TypeError")
    ELSE Return(response)

\* MeasurementResponse(**json.loads(get(...).text)): the status is not looked
\* at, json.loads raises on a body that is not JSON
MeasurementJson(response) ==
    IF response.body = "exception" THEN Raise("RequestException")
    ELSE IF response.body = "not_json" THEN Raise("JSONDecodeError")
    ELSE MeasurementResponse(response)

\* the body of get_contract_data_json
GetContractDataJson(sess, http, time) ==
    LET Get(headers) ==
            IF headers.kind = "error" THEN [out |-> headers, sent |-> <<>>]
            ELSE [out |-> ContractJson(Response("contract", <<>>, http, time)),
                  sent |-> <<[endpoint |-> "contract", params |-> <<>>,
                              token |-> headers.value.Authorization]>>]
    IN  Get(ApiRequestHeaders(sess))

\* @cached on get_contract_data_json: return cache[k], or on a KeyError call
\* the function and store what it returns; an exception stores nothing.
\* The contract field keeps what the function, when called, came to.
CachedContractData(caches, sess, http, time) ==
    LET Store(got, r) ==
            IF r.out.kind = "error"
            THEN [caches |-> [caches EXCEPT !["contract"] = got.cache],
                  out |-> r.out, sent |-> r.sent, contract |-> r.out]
            ELSE [caches |-> [caches EXCEPT !["contract"] =
                                TTLCache_setitem(got.cache, <<>>, r.out.value,
                                                 time, MaxSize("contract"))],
                  out |-> r.out, sent |-> r.sent, contract |-> r.out]
        Lookup(got) ==
            IF got.hit
            THEN [caches |-> [caches EXCEPT !["contract"] = got.cache],
                  out |-> Return(got.value), sent |-> <<>>,
                  contract |-> NoOutcome]
            ELSE Store(got, GetContractDataJson(sess, http, time))
    IN  Lookup(TTLCache_getitem(caches["contract"], <<>>, time))

\* variant: the contract data is requested for every delivery site id
GetDeliverySiteIdUncached(caches, sess, http, time) ==
    LET Site(r) ==
            IF r.out.kind = "error"
            THEN [caches |-> caches, out |-> r.out, sent |-> r.sent,
                  contract |-> r.out]
            ELSE IF r.out.value.body # "ok"
            THEN [caches |-> caches, out |-> Raise("KeyError"), sent |-> r.sent,
                  contract |-> r.out]
            ELSE [caches |-> caches, out |-> Return(DeliverySite(r.out.value)),
                  sent |-> r.sent, contract |-> r.out]
    IN  Site(GetContractDataJson(sess, http, time))

\* get_delivery_site_id: contract_data[0]["delivery_site"]["id"]; a body of
\* another shape has no such path
GetDeliverySiteId(caches, sess, http, time) ==
    LET Site(r) ==
            IF r.out.kind = "error" THEN r
            ELSE IF r.out.value.body # "ok" THEN [r EXCEPT !.out = Raise("KeyError")]
            ELSE [r EXCEPT !.out = Return(DeliverySite(r.out.value))]
    IN  Site(CachedContractData(caches, sess, http, time))

\* the window a measurement operation requests for its arguments
Today == Date(2024, 3, 15)
WindowOf(op, key) ==
    CASE op = "daily" -> DailyWindow(Today, key)
      [] op = "monthly" -> MonthlyWindow(key)
      [] op = "hourly" -> HourlyMeasurementsWindow(key[1], key[2])
      [] op = "spot" -> HourlySpotPricesWindow(key[1], key[2])

\* the body of a measurement or spot-price operation: the window, the
\* delivery site id (through the contract cache), the GET, the parsing
GetMeasurements(op, key, caches, sess, httpContract, http, time) ==
    LET Get(window, site, headers) ==
            IF site.out.kind = "error" THEN site
            ELSE IF headers.kind = "error" THEN [site EXCEPT !.out = headers]
            ELSE [caches |-> site.caches,
                  contract |-> site.contract,
                  out |-> MeasurementJson(Response(op, key, http, time)),
                  sent |-> site.sent \o
                      <<[endpoint |-> op,
                         params |-> [begin |-> window.begin,
                                     end |-> window.end,
                                     resolution |-> window.resolution,
                                     delivery_site_id |-> site.out.value,
                                     allow_transfer |-> "true"],
                         token |-> headers.value.Authorization]>>]
    IN  Get(WindowOf(op, key),
            GetDeliverySiteId(caches, sess, httpContract, time),
            ApiRequestHeaders(sess))

\* variant: the hourly measurements and the spot prices share one cache
CachedOneRangeCache(op, key, caches, sess, httpContract, http, time) ==
    LET Shared(o) == IF o = "spot" THEN "hourly" ELSE o
        Store(r) ==
            IF r.out.kind = "error" THEN r
            ELSE [r EXCEPT !.caches[Shared(op)] =
                     TTLCache_setitem(r.caches[Shared(op)], key, r.out.value,
                                      time, MaxSize(op))]
        Lookup(got) ==
            IF got.hit
            THEN [caches |-> [caches EXCEPT ![Shared(op)] = got.cache],
                  out |-> Return(got.value), sent |-> <<>>,
                  contract |-> NoOutcome]
            ELSE Store(GetMeasurements(op, key,
                                       [caches EXCEPT ![Shared(op)] = got.cache],
                                       sess, httpContract, http, time))
    IN  IF op = "contract" THEN CachedContractData(caches, sess, http, time)
        ELSE Lookup(TTLCache_getitem(caches[Shared(op)], key, time))

\* @cached on a fetch operation
Cached(op, key, caches, sess, httpContract, http, time) ==
    LET Store(r) ==
            IF r.out.kind = "error" THEN r
            ELSE [r EXCEPT !.caches[op] =
                     TTLCache_setitem(r.caches[op], key, r.out.value,
                                      time, MaxSize(op))]
        Lookup(got) ==
            IF got.hit
            THEN [caches |-> [caches EXCEPT ![op] = got.cache],
                  out |-> Return(got.value), sent |-> <<>>,
                  contract |-> NoOutcome]
            ELSE Store(GetMeasurements(op, key, [caches EXCEPT ![op] = got.cache],
                                       sess, httpContract, http, time))
    IN  IF op = "contract" THEN CachedContractData(caches, sess, http, time)
        ELSE Lookup(TTLCache_getitem(caches[op], key, time))

\* calls, as pairs of an operation and its arguments (a login and its number)
Calls(op, keys) == {<<op, k>> : k \in keys}

\* the arguments the operations are called with
MonthArgs == 1..5
YearArgs == {2023, 2024, 2025}
RangeArgs == {<<Date(2024, 1, 1), Date(2024, 1, 31)>>}
Args(op) ==
    CASE op = "daily" -> MonthArgs
      [] op = "monthly" -> YearArgs
      [] op \in {"hourly", "spot"} -> RangeArgs
      [] op = "contract" -> {<<>>}

\* History, for the properties: the time and the session of the latest
\* successful login, and
\* for every call (operation and arguments) of the run's scope the time of the latest fetch that
\* returned a response from the upstream (forgotten once an hour has passed)
\* and whether the cache has since dropped an unexpired entry of them for room.
\* Of the last fetch call: prior is what fetched held for its arguments before
\* the call and priorContract what it held for the contract data, stale the
\* response of an expired entry it found in the cache, and http what the
\* upstream did with the request to the operation's endpoint.
\* lru lists the measurement calls whose responses the caches hold, the least
\* recently returned first; site is the delivery site id of the first measurement
\* request.
NotFetched == [at |-> None, evicted |-> FALSE]
FetchCalls == {c \in scope : c[1] \in Ops}
HistInit == [lastLogin |-> None,
             lastSession |-> None,
             fetched |-> [c \in FetchCalls |-> NotFetched],
             prior |-> NotFetched,
             priorContract |-> NotFetched,
             stale |-> NoOutcome,
             http |-> "none",
             lru |-> <<>>,
             site |-> None]

(***************************************************************************)
(* SpecPure: the pure computations applied to inputs drawn in Init.        *)
(***************************************************************************)

\* bounds of the inputs
MaxLen == 3
MaxComponents == 3
Years == {1900, 2000, 2023, 2024}
SampleDays == {1, 2, 15, 28, 29, 30, 31}
PriceValues == {-10, 10, 20, 30}
MeasurementValues == {-2, 0, 1, 2, 3}
ComponentPrices == {5, 7}
WindowYears == Years \cup {1, 1000, 2025}

Dates == {d \in [year : Years, month : 1..12, day : SampleDays] :
            d.day <= monthrange_last(d.year, d.month)}

SeqsUpTo(S, n) == UNION {[1..k -> S] : k \in 0..n}

PureCalls ==
    [op : {"daily_window"}, today : Dates, month : 1..12]
    \cup [op : {"monthly_window"}, year : WindowYears]
    \cup {c \in [op : {"hourly_window", "spot_window"},
                 start : Dates, end : Dates] :
            c.end.year = c.start.year /\ c.end.month = c.start.month}
    \cup [op : {"impact"}, hourly_prices : SeqsUpTo(PriceValues, MaxLen),
          hourly_measurements : SeqsUpTo(MeasurementValues, MaxLen)]
    \cup [op : {"base_price"},
          contract_components :
              SeqsUpTo([is_base_price : BOOLEAN, price : ComponentPrices],
                       MaxComponents)]

\* the client and the caches as construction leaves them
ClientInit ==
    /\ wall = 0
    /\ mono = 0
    /\ latest_login_time = None
    /\ session = None
    /\ closed = {}
    /\ cache = [op \in Ops |-> <<>>]
    /\ sent = <<>>
    /\ ret = NoOutcome

InitPure ==
    /\ ClientInit
    /\ scope = {}
    /\ call \in PureCalls
    /\ hist = HistInit

Apply(op, outcome) ==
    /\ call.op = op
    /\ ret = NoOutcome
    /\ ret' = outcome
    /\ UNCHANGED <<scope, wall, mono, latest_login_time, session, closed, cache,
                   call, sent, hist>>

ApplyDailyWindow ==
    Apply("daily_window", Return(DailyWindow(call.today, call.month)))

ApplyMonthlyWindow ==
    Apply("monthly_window", Return(MonthlyWindow(call.year)))

ApplyHourlyMeasurementsWindow ==
    Apply("hourly_window", Return(HourlyMeasurementsWindow(call.start, call.end)))

ApplyHourlySpotPricesWindow ==
    Apply("spot_window", Return(HourlySpotPricesWindow(call.start, call.end)))

ApplyCalculateImpact ==
    Apply("impact", CalculateImpact(call.hourly_prices, call.hourly_measurements))

ApplyContractBasePrice ==
    Apply("base_price", ContractBasePrice(call.contract_components))

NextPure ==
    \/ ApplyDailyWindow
    \/ ApplyMonthlyWindow
    \/ ApplyHourlyMeasurementsWindow
    \/ ApplyHourlySpotPricesWindow
    \/ ApplyCalculateImpact
    \/ ApplyContractBasePrice

SpecPure == InitPure /\ [][NextPure]_vars

(***************************************************************************)
(* Properties of the pure computations (under SpecPure).                   *)
(***************************************************************************)

\* Reading a timestamp back: the date fields up to "T", then the rest.
DigitValue(c) ==
    CASE c = "0" -> 0 [] c = "1" -> 1 [] c = "2" -> 2 [] c = "3" -> 3
      [] c = "4" -> 4 [] c = "5" -> 5 [] c = "6" -> 6 [] c = "7" -> 7
      [] c = "8" -> 8 [] c = "9" -> 9

RECURSIVE ParseInt(_)
ParseInt(cs) == IF Len(cs) = 1 THEN DigitValue(cs[1])
                ELSE 10 * ParseInt(SubSeq(cs, 1, Len(cs) - 1))
                     + DigitValue(cs[Len(cs)])

FirstIndexOf(cs, c) ==
    CHOOSE i \in 1..Len(cs) : cs[i] = c /\ \A j \in 1..(i - 1) : cs[j] # c

DatePart(ts) == SubSeq(ts, 1, FirstIndexOf(ts, "T") - 1)
TimePart(ts) == SubSeq(ts, FirstIndexOf(ts, "T"), Len(ts))

ParsedDate(ts) ==
    LET d == DatePart(ts)
        i == FirstIndexOf(d, "-")
        rest == SubSeq(d, i + 1, Len(d))
        j == FirstIndexOf(rest, "-")
    IN  Date(ParseInt(SubSeq(d, 1, i - 1)),
             ParseInt(SubSeq(rest, 1, j - 1)),
             ParseInt(SubSeq(rest, j + 1, Len(rest))))

\* The proleptic Gregorian day number of a date.
GregorianLeap(y) == y % 400 = 0 \/ (y % 4 = 0 /\ y % 100 # 0)
DaysBeforeYear(y) ==
    365 * (y - 1) + ((y - 1) \div 4) - ((y - 1) \div 100) + ((y - 1) \div 400)
DaysBeforeMonth(y, m) ==
    <<0, 31, 59, 90, 120, 151, 181, 212, 243, 273, 304, 334>>[m]
    + (IF m > 2 /\ GregorianLeap(y) THEN 1 ELSE 0)
Ordinal(d) == DaysBeforeYear(d.year) + DaysBeforeMonth(d.year, d.month) + d.day

FirstOfNextMonth(y, m) == IF m = 12 THEN Date(y + 1, 1, 1) ELSE Date(y, m + 1, 1)

\* d is the last calendar day of month m of year y
IsLastDayOf(d, y, m) ==
    /\ d.year = y /\ d.month = m /\ d.day >= 1
    /\ Ordinal(d) + 1 = Ordinal(FirstOfNextMonth(y, m))

\* d is a calendar date
IsCalendarDate(d) ==
    /\ d.month \in 1..12 /\ d.day >= 1
    /\ Ordinal(d) < Ordinal(FirstOfNextMonth(d.year, d.month))

\* C4: for every month m in 1..12 and every current year, the daily window
\* begins at 21:00:00.000Z on the last calendar day of month m-1 (December 31
\* of the previous year for m = 1) and ends at 20:59:59.999Z on the last
\* calendar day of month m of the current year.
C4_DailyWindow ==
    (call.op = "daily_window" /\ ret # NoOutcome) =>
        /\ ret.kind = "ok"
        /\ ret.value.resolution = "day"
        /\ TimePart(ret.value.begin) =
             <<"T", "2", "1", ":", "0", "0", ":", "0", "0", ".", "0", "0", "0", "Z">>
        /\ TimePart(ret.value.end) =
             <<"T", "2", "0", ":", "5", "9", ":", "5", "9", ".", "9", "9", "9", "Z">>
        /\ IsLastDayOf(ParsedDate(ret.value.end), call.today.year, call.month)
        /\ IF call.month = 1
           THEN ParsedDate(ret.value.begin) = Date(call.today.year - 1, 12, 31)
           ELSE IsLastDayOf(ParsedDate(ret.value.begin),
                            call.today.year, call.month - 1)

\* January of a year: the window begins on December 31 of the year before
C4_Witness ==
    /\ call.op = "daily_window" /\ call.month = 1 /\ call.today.year = 2024
    /\ ret.kind = "ok"
    /\ ParsedDate(ret.value.begin) = Date(2023, 12, 31)
    /\ ParsedDate(ret.value.end) = Date(2024, 1, 31)

\* C5: for every date range [s, e], the hourly-measurement and the
\* hourly-spot-price windows both begin at 22:00:00Z on the calendar day before
\* s (across month and year boundaries) and end at 21:59:59Z on e.
C5_HourlyWindow ==
    (call.op \in {"hourly_window", "spot_window"} /\ ret # NoOutcome) =>
        /\ ret.kind = "ok"
        /\ ret.value.resolution = "hour"
        /\ TimePart(ret.value.begin) =
             <<"T", "2", "2", ":", "0", "0", ":", "0", "0", "+", "0", "0", ":", "0", "0">>
        /\ TimePart(ret.value.end) =
             <<"T", "2", "1", ":", "5", "9", ":", "5", "9", "+", "0", "0", ":", "0", "0">>
        /\ IsCalendarDate(ParsedDate(ret.value.begin))
        /\ Ordinal(ParsedDate(ret.value.begin)) = Ordinal(call.start) - 1
        /\ ParsedDate(ret.value.end) = call.end

\* the first day of a year: the window begins on December 31 of the year before
C5_Witness ==
    /\ call.op = "spot_window" /\ call.start = Date(2024, 1, 1)
    /\ ret.kind = "ok"
    /\ ParsedDate(ret.value.begin) = Date(2023, 12, 31)

\* C12: for every year y, the monthly window begins on December 31 of y-1 at
\* 22:00:00Z and ends on December 31 of y at 21:59:59Z, with resolution month.
C12_MonthlyWindow ==
    (call.op = "monthly_window" /\ ret # NoOutcome) =>
        /\ ret.kind = "ok"
        /\ ret.value.resolution = "month"
        /\ TimePart(ret.value.begin) =
             <<"T", "2", "2", ":", "0", "0", ":", "0", "0", "+", "0", "0", ":", "0", "0">>
        /\ TimePart(ret.value.end) =
             <<"T", "2", "1", ":", "5", "9", ":", "5", "9", "+", "0", "0", ":", "0", "0">>
        /\ ParsedDate(ret.value.begin) = Date(call.year - 1, 12, 31)
        /\ ParsedDate(ret.value.end) = Date(call.year, 12, 31)

\* the year 1000: the window begins in the three-digit year 999
C12_Witness ==
    /\ call.op = "monthly_window" /\ call.year = 1000
    /\ ret.kind = "ok"
    /\ ParsedDate(ret.value.begin) = Date(999, 12, 31)
    /\ ParsedDate(ret.value.end) = Date(1000, 12, 31)

\* Sums written over the indices, for the properties.
RECURSIVE AbsSumTo(_, _)
AbsSumTo(xs, k) ==
    IF k = 0 THEN 0
    ELSE AbsSumTo(xs, k - 1) + (IF xs[k] >= 0 THEN xs[k] ELSE 0 - xs[k])

RECURSIVE AbsDotTo(_, _, _)
AbsDotTo(xs, ys, k) ==
    IF k = 0 THEN 0
    ELSE AbsDotTo(xs, ys, k - 1)
         + (IF (xs[k] >= 0) = (ys[k] >= 0) THEN xs[k] * ys[k] ELSE 0 - xs[k] * ys[k])

\* q = n / d as exact numbers
RatEquals(q, n, d) == q.den > 0 /\ q.num * d = q.den * n

C7_UnequalLength ==
    (call.op = "impact" /\ ret # NoOutcome) =>
        LET P == call.hourly_prices
            M == call.hourly_measurements
            k == IF Len(P) < Len(M) THEN Len(P) ELSE Len(M)
            SP == AbsSumTo(P, Len(P))
            SM == AbsSumTo(M, Len(M))
            SW == AbsDotTo(P, M, k)
        IN  /\ (Len(P) # Len(M) /\ Len(P) > 0 /\ SM # 0) =>
                /\ ret.kind = "ok"
                /\ ret.length = k
                /\ ret.total_hourly_weighted_consumption_prices = SW
                /\ RatEquals(ret.monthly_average_price, SP, Len(P))
                /\ ret.total_consumption = SM
                /\ RatEquals(ret.value, Len(P) * SW - SP * SM, Len(P) * SM)
            /\ (P = <<10, 20, 30>> /\ M = <<1, 1>>) =>
                /\ ret.kind = "ok"
                /\ ret.length = 2
                /\ ret.total_hourly_weighted_consumption_prices = 10 * 1 + 20 * 1
                /\ ret.monthly_average_price = [num |-> 20, den |-> 1]
                /\ ret.total_consumption = 2
                /\ ret.value = [num |-> -5, den |-> 1]

C7_Witness ==
    /\ call.op = "impact"
    /\ call.hourly_prices = <<10, 20, 30>> /\ call.hourly_measurements = <<1, 1>>
    /\ ret.kind = "ok" /\ ret.length = 2

\* C8: whenever every hourly measurement is zero (total consumption 0), the
\* impact calculation ends in a division-by-zero error and returns no number.
C8_DivisionByZero ==
    (call.op = "impact" /\ ret # NoOutcome
     /\ \A i \in 1..Len(call.hourly_measurements) :
            call.hourly_measurements[i] = 0) =>
        /\ ret.kind = "error"
        /\ ret.error = "ZeroDivisionError"

C8_Witness ==
    /\ call.op = "impact"
    /\ call.hourly_prices = <<10, 20>> /\ call.hourly_measurements = <<0, 0>>
    /\ ret.kind = "error"

\* C10: scanning the components of the first product of the first contract,
\* when exactly one component is flagged is_base_price the result is that
\* component's price, and when none is flagged the operation ends in an error
\* (the not-found outcome) and returns no price.
C10_BasePrice ==
    (call.op = "base_price" /\ ret # NoOutcome) =>
        LET cs == call.contract_components
            flagged == {i \in 1..Len(cs) : cs[i].is_base_price}
        IN  /\ Cardinality(flagged) = 1 =>
                \E i \in flagged : ret.kind = "ok" /\ ret.value = cs[i].price
            /\ flagged = {} => ret.kind = "error" /\ ret.error = "StopIteration"

\* the flagged component comes second, after an unflagged one of another price
C10_Witness ==
    /\ call.op = "base_price"
    /\ call.contract_components =
         <<[is_base_price |-> FALSE, price |-> 5],
           [is_base_price |-> TRUE, price |-> 7]>>
    /\ ret.kind = "ok" /\ ret.value = 7

(***************************************************************************)
(* SpecSession: login, is_session_valid and close against the wall clock.  *)
(* datetime.now() is the naive local wall clock: it advances, and it can   *)
(* be set back (a clock adjustment, the end of daylight saving time).      *)
(***************************************************************************)

\* bounds: the clocks move in steps of half an hour, up to MaxClock steps
MaxClock == 3
MaxLogins == 2
ClockStep == HOUR \div 2

WallAdvance ==
    /\ wall + ClockStep <= MaxClock * ClockStep
    /\ wall' = wall + ClockStep
    /\ UNCHANGED <<mono, latest_login_time, session, closed, cache,
                   call, ret, sent, hist, scope>>

WallSetBack ==
    /\ wall - ClockStep >= 0
    /\ wall' = wall - ClockStep
    /\ UNCHANGED <<mono, latest_login_time, session, closed, cache,
                   call, ret, sent, hist, scope>>

\* the id of the next HelenSession object
NextSessionId == IF session = None THEN 1 ELSE session + 1

\* login: HelenSession().login succeeded
Login ==
    /\ NextSessionId <= MaxLogins
    /\ <<"login", NextSessionId>> \in scope
    /\ session' = NextSessionId
    /\ latest_login_time' = wall
    /\ hist' = [hist EXCEPT !.lastLogin = wall, !.lastSession = session']
    /\ call' = [op |-> "login"]
    /\ ret' = Return("self")
    /\ sent' = <<>>
    /\ UNCHANGED <<scope, wall, mono, closed, cache>>

\* variant: the time of the login is taken before the session answers
LoginFailsAfterTimestamp ==
    /\ latest_login_time' = wall
    /\ call' = [op |-> "login"]
    /\ ret' = Raise("AuthenticationError")
    /\ sent' = <<>>
    /\ UNCHANGED <<scope, wall, mono, session, closed, cache, hist>>

\* login: HelenSession().login raised; neither assignment is reached
LoginFails ==
    /\ call' = [op |-> "login"]
    /\ ret' = Raise("AuthenticationError")
    /\ sent' = <<>>
    /\ UNCHANGED <<scope, wall, mono, latest_login_time, session, closed, cache,
                   hist>>

\* variant: without the upper bound latest <= now
IsLoginWithinHourNoUpperBound(latest, now) ==
    latest # None /\ now - HOUR <= latest

\* is_session_valid, with now = datetime.now()
IsLatestLoginWithinHour(latest, now) ==
    IF latest = None THEN FALSE
    ELSE now - HOUR <= latest /\ latest <= now

IsSessionValid ==
    /\ call' = [op |-> "is_session_valid", now |-> wall]
    /\ ret' = Return(IsLatestLoginWithinHour(latest_login_time, wall))
    /\ sent' = <<>>
    /\ UNCHANGED <<scope, wall, mono, latest_login_time, session, closed, cache,
                   hist>>

\* variant: close without the test for a session
CloseUnguarded ==
    /\ closed' = closed \cup {session}
    /\ call' = [op |-> "close", again |-> call.op = "close"]
    /\ ret' = IF session = None THEN Raise("AttributeError") ELSE Return("None")
    /\ sent' = <<>>
    /\ UNCHANGED <<scope, wall, mono, latest_login_time, session, cache, hist>>

\* close: closes the session object, when there is one; the field keeps it.
\* The call records whether the operation before it was a close as well.
Close ==
    /\ closed' = IF session # None THEN closed \cup {session} ELSE closed
    /\ call' = [op |-> "close", again |-> call.op = "close"]
    /\ ret' = Return("None")
    /\ sent' = <<>>
    /\ UNCHANGED <<scope, wall, mono, latest_login_time, session, cache, hist>>

InitSession ==
    /\ ClientInit
    /\ scope = Calls("login", 1..MaxLogins)
    /\ call = [op |-> "init"]
    /\ hist = HistInit

NextSession ==
    \/ WallAdvance
    \/ WallSetBack
    \/ Login
    \/ LoginFails
    \/ IsSessionValid
    \/ Close

SpecSession == InitSession /\ [][NextSession]_vars

\* C3: is_session_valid() returns true exactly when the current time lies in
\* [lastLogin, lastLogin + 1h], lastLogin being the time of the latest
\* successful login; false before lastLogin, after lastLogin + 1h, and when no
\* login has happened yet.
C3_SessionValidity ==
    (call.op = "is_session_valid") =>
        /\ ret.kind = "ok"
        /\ ret.value = (/\ hist.lastLogin # None
                        /\ hist.lastLogin <= call.now
                        /\ call.now <= hist.lastLogin + 3600)

\* the wall clock was set back after the login: now < lastLogin, not valid
C3_Witness ==
    /\ call.op = "is_session_valid"
    /\ hist.lastLogin # None
    /\ call.now < hist.lastLogin
    /\ ret = Return(FALSE)

\* C13: close() any number of times, in any state (before any login too),
\* leaves the client as one close leaves it, and never raises: a close does not
\* change the session, the login time or the caches, and a close that follows
\* a close changes nothing at all.
C13_CloseIdempotent ==
    [][call'.op = "close" =>
         /\ ret'.kind = "ok"
         /\ UNCHANGED <<session, latest_login_time, cache>>
         /\ closed' \subseteq closed \cup {hist.lastSession}
         /\ None \notin closed'
         /\ call'.again => closed' = closed]_vars

\* a second close in a row, of a session that was logged in
C13_Witness ==
    /\ call.op = "close" /\ call.again
    /\ session # None /\ session \in closed
    /\ ret.kind = "ok"

(***************************************************************************)
(* Spec: the fetch operations, their caches, the upstream and the          *)
(* monotonic clock.  A fetch is one step: the clock does not move within.  *)
(***************************************************************************)

\* The calls a run's caller makes: its logins, the contract data and the
\* measurements of one resolution.  The caches of the other operations stay
\* empty.
Scopes == {Calls("login", {1}) \cup Calls("contract", {<<>>})
               \cup Calls("monthly", YearArgs),
           Calls("login", 1..MaxLogins) \cup Calls("contract", {<<>>})
               \cup Calls("daily", {1}),
           Calls("login", {1}) \cup Calls("contract", {<<>>})
               \cup Calls("hourly", RangeArgs) \cup Calls("spot", RangeArgs)}

Init ==
    /\ ClientInit
    /\ scope \in Scopes
    /\ call = [op |-> "init"]
    /\ hist = HistInit

\* time.monotonic() advances; what the last operation came to is no longer
\* looked at
Tick ==
    /\ mono + ClockStep <= MaxClock * ClockStep
    /\ mono' = mono + ClockStep
    /\ hist' = [hist EXCEPT
                  !.fetched =
                      [c \in FetchCalls |->
                          IF hist.fetched[c].at # None
                             /\ hist.fetched[c].at + 3600 <= mono'
                          THEN NotFetched ELSE hist.fetched[c]],
                  !.prior = NotFetched,
                  !.priorContract = NotFetched,
                  !.stale = NoOutcome,
                  !.http = "none"]
    /\ call' = [op |-> "tick"]
    /\ ret' = NoOutcome
    /\ sent' = <<>>
    /\ UNCHANGED <<scope, wall, latest_login_time, session, closed, cache>>

RequestsTo(op, requests) ==
    {i \in 1..Len(requests) : requests[i].endpoint = op}

\* the history after a fetch call that came to r
HistAfter(op, key, r, http) ==
    LET fetchedNow(o, k) ==
            \/ o = op /\ k = key /\ r.out.kind = "ok" /\ RequestsTo(op, r.sent) # {}
            \/ o = "contract" /\ op # "contract" /\ r.contract.kind = "ok"
        dropped(o, k) ==
            /\ \E i \in 1..Len(cache[o]) :
                   cache[o][i].key = k /\ mono < cache[o][i].value.at + 3600
            /\ ~HasKey(r.caches[o], k)
        staleOf(c) ==
            IF \E i \in 1..Len(c) : c[i].key = key /\ mono >= c[i].value.at + 3600
            THEN Return(EntryOf(c, key).value) ELSE NoOutcome
    IN  [hist EXCEPT
           !.fetched = [c \in FetchCalls |->
               IF fetchedNow(c[1], c[2]) THEN [at |-> mono, evicted |-> FALSE]
               ELSE IF dropped(c[1], c[2])
                    THEN [hist.fetched[c] EXCEPT !.evicted = TRUE]
                    ELSE hist.fetched[c]],
           !.prior = hist.fetched[<<op, key>>],
           !.priorContract =
               IF <<"contract", <<>>>> \in scope
               THEN hist.fetched[<<"contract", <<>>>>] ELSE NotFetched,
           !.stale = staleOf(cache[op]),
           !.http = IF RequestsTo(op, r.sent) # {} THEN http ELSE "none",
           !.lru = SelectSeq(IF r.out.kind = "ok" /\ op # "contract"
                             THEN SelectSeq(hist.lru, LAMBDA c : c # <<op, key>>)
                                  \o << <<op, key>> >>
                             ELSE hist.lru,
                             LAMBDA c : HasKey(r.caches[c[1]], c[2])),
           !.site = IF hist.site # None \/ op = "contract"
                       \/ RequestsTo(op, r.sent) = {}
                    THEN hist.site
                    ELSE r.sent[Len(r.sent)].params.delivery_site_id]

\* a call of a fetch operation; httpContract and http are what the upstream
\* does with the contract request and with the operation's own request, when
\* the call issues them
CallCached(op, key, httpContract, http) ==
    /\ <<op, key>> \in scope
    /\ \E r \in {Cached(op, key, cache, session, httpContract, http, mono)} :
           /\ cache' = r.caches
           /\ ret' = r.out
           /\ sent' = r.sent
           /\ call' = [op |-> op, key |-> key, at |-> mono]
           /\ hist' = HistAfter(op, key, r, http)
           /\ UNCHANGED <<scope, wall, mono, latest_login_time, session, closed>>

\* what the upstream may do with a request, when the call would issue it
\* (otherwise nothing is asked of the upstream)
IsHit(op, key) ==
    \E i \in 1..Len(cache[op]) :
        cache[op][i].key = key /\ ~IsExpired(cache[op][i], mono)
OutcomesIf(asked) == IF asked THEN HttpOutcomes ELSE {"ok"}

CallMeasurements(op, key) ==
    /\ <<op, key>> \in scope
    /\ \E hc \in OutcomesIf(~IsHit(op, key) /\ ~IsHit("contract", <<>>)
                            /\ session # None) :
           \E h \in OutcomesIf(~IsHit(op, key) /\ session # None
                               /\ (hc = "ok" \/ IsHit("contract", <<>>))) :
               CallCached(op, key, hc, h)

get_daily_measurements_by_month ==
    \E month \in Args("daily") : CallMeasurements("daily", month)

get_monthly_measurements_by_year ==
    \E year \in Args("monthly") : CallMeasurements("monthly", year)

get_hourly_measurements_between_dates ==
    \E range \in Args("hourly") : CallMeasurements("hourly", range)

get_hourly_spot_prices_between_dates ==
    \E range \in Args("spot") : CallMeasurements("spot", range)

get_contract_data_json ==
    \E h \in OutcomesIf(~IsHit("contract", <<>>) /\ session # None) :
        CallCached("contract", <<>>, h, h)

Next ==
    \/ Tick
    \/ Login
    \/ LoginFails
    \/ get_daily_measurements_by_month
    \/ get_monthly_measurements_by_year
    \/ get_hourly_measurements_between_dates
    \/ get_hourly_spot_prices_between_dates
    \/ get_contract_data_json

Spec == Init /\ [][Next]_vars

(***************************************************************************)
(* Properties of the caches and of the upstream failures, under Spec.      *)
(***************************************************************************)

\* the last step was a call of one of the five fetch operations
IsFetchCall == call.op \in Ops

\* the call returned the response that the fetch at time t stored for its
\* arguments, and asked nothing of the upstream
ReturnedStored(t) ==
    /\ sent = <<>>
    /\ ret.kind = "ok"
    /\ ret.value.op = call.op
    /\ ret.value.key = call.key
    /\ ret.value.at = t

\* C1 as stated: for each of the five fetch operations, a call with the
\* parameters of an earlier fetch, made within the one-hour TTL of that fetch,
\* issues no upstream request and returns the stored response.
C1_AsStated ==
    (IsFetchCall /\ hist.prior.at # None /\ call.at < hist.prior.at + 3600)
        => ReturnedStored(hist.prior.at)

\* C1, amended: for each of the five fetch operations, once a call has
\* fetched and stored a response for its parameters, a call with the same
\* parameters less than one hour after that fetch, whose entry the cache has
\* not dropped for room in between, issues no upstream request and returns the
\* stored response; and a call that does fetch issues exactly one request to
\* the operation's endpoint.
C1_CacheIdempotence ==
    IsFetchCall =>
        /\ (hist.prior.at # None /\ ~hist.prior.evicted
               /\ call.at < hist.prior.at + 3600)
              => ReturnedStored(hist.prior.at)
        /\ Cardinality(RequestsTo(call.op, sent)) <= 1

\* a second call half an hour after the fetch, answered from the cache
C1_Witness ==
    /\ call.op = "monthly"
    /\ hist.prior.at # None /\ ~hist.prior.evicted
    /\ call.at = hist.prior.at + 1800
    /\ ReturnedStored(hist.prior.at)

\* C2: for every fetch operation and every parameter tuple, a call made more
\* than one hour after the entry was inserted never returns the stored entry:
\* it issues a new upstream request, and the response it returns is the fresh
\* one, which replaces the entry.
C2_CacheExpiry ==
    (IsFetchCall /\ hist.stale.kind = "ok"
       /\ call.at > hist.stale.value.at + 3600)
        => /\ sent # <<>>
           /\ ret.kind = "ok" =>
                 /\ ret.value # hist.stale.value
                 /\ RequestsTo(call.op, sent) # {}
                 /\ ret.value.at = call.at
                 /\ HasKey(cache[call.op], call.key)
                 /\ EntryOf(cache[call.op], call.key).value = ret.value
                 /\ EntryOf(cache[call.op], call.key).expires = call.at + 3600

\* the error classes of the exceptions
UpstreamErrors == {"RequestException"}
ParseErrors == {"JSONDecodeError", "TypeError", "KeyError"}

\* C9: every fetch operation whose HTTP call fails, times out or returns a
\* non-2xx status ends in an upstream error surfaced to the caller, and one
\* whose body does not match the expected shape in a parse error; in neither
\* case does the operation return a value.
C9_UpstreamFailure ==
    IsFetchCall =>
        /\ hist.http \in {"exception", "non_2xx"}
              => ret.kind = "error" /\ ret.error \in UpstreamErrors
        /\ hist.http = "not_json"
              => ret.kind = "error" /\ ret.error \in ParseErrors

\* C16 as stated: when a fetch operation fails (transport failure, timeout,
\* non-2xx status or unparsable body), no entry for its parameters is stored in
\* its cache; a later call with the same parameters goes upstream anew, and no
\* call returns an error response from the cache.
C16_FailedFetch ==
    IsFetchCall =>
        /\ (ret.kind = "error" \/ hist.http \in {"exception", "non_2xx", "not_json"})
              => \A i \in 1..Len(cache[call.op]) :
                     cache[call.op][i].key = call.key
                         => cache[call.op][i].value.at + 3600 <= call.at
        /\ (ret.kind = "error" /\ hist.lastSession # None) => sent # <<>>
        /\ ret.kind = "ok" => ret.value.body = "ok"

\* the measurement operations
MeasurementOps == Ops \ {"contract"}

\* the delivery site ids of the measurement requests
SitesSent(requests) ==
    {requests[i].params.delivery_site_id :
         i \in {j \in 1..Len(requests) : requests[j].endpoint \in MeasurementOps}}

\* the contract data was fetched less than an hour before the call
ContractFetchedWithinTTL ==
    hist.priorContract.at # None /\ call.at < hist.priorContract.at + 3600

\* the delivery site id of every measurement request of the call is the one
\* of the unexpired contract data in the contract cache, and a call issues at
\* most one contract request, and none while the contract data is cached
SiteFromCachedContract ==
    /\ Cardinality(RequestsTo("contract", sent)) <= 1
    /\ ContractFetchedWithinTTL => RequestsTo("contract", sent) = {}
    /\ \A id \in SitesSent(sent) :
           \E i \in 1..Len(cache["contract"]) :
               /\ call.at < cache["contract"][i].value.at + 3600
               /\ cache["contract"][i].value.body = "ok"
               /\ id = cache["contract"][i].value.site

\* C17 as stated: every measurement and spot-price fetch that goes upstream
\* takes the delivery site id from the cached contract data, with at most one
\* contract request within the contract cache's TTL, and the id sent never
\* changes once it was fetched.
C17_AsStated ==
    (call.op \in MeasurementOps) =>
        /\ SiteFromCachedContract
        /\ \A id \in SitesSent(sent) : hist.site # None /\ id = hist.site

\* C17, amended: every measurement and spot-price fetch that goes upstream
\* sends the delivery site id of the contract data in the contract cache,
\* fetched by the same call when the cache has none; a call issues at most one
\* contract request, and none while contract data fetched less than an hour
\* before is cached.  (The id is read anew from contract data fetched after
\* the hour.)
C17_DeliverySite ==
    (call.op \in MeasurementOps) => SiteFromCachedContract

\* a measurement request half an hour after the contract data was fetched:
\* no contract request, and the id of the cached contract data
C17_Witness ==
    /\ call.op = "daily"
    /\ hist.priorContract.at # None
    /\ call.at = hist.priorContract.at + 1800
    /\ Len(sent) = 1
    /\ SitesSent(sent) = {EntryOf(cache["contract"], <<>>).value.site}

\* C18: each fetch operation has its own cache, keyed by its arguments.  A
\* call returns a response of its own operation and arguments, and changes no
\* cache of another operation; the contract cache changes under a measurement
\* call only as the get_contract_data_json call nested in it changes it.
C18_IndependentMemoization ==
    [][call'.op \in Ops =>
         /\ ret'.kind = "ok" =>
               ret'.value.op = call'.op /\ ret'.value.key = call'.key
         /\ \A o \in Ops \ {call'.op, "contract"} : cache'[o] = cache[o]
         /\ call'.op # "contract" =>
               \/ cache'["contract"] = cache["contract"]
               \/ \E h \in HttpOutcomes :
                      cache'["contract"] =
                          CachedContractData(cache, session, h, mono).caches["contract"]
       ]_vars

\* spot prices fetched for the range the hourly measurements are cached for
C18_Witness ==
    /\ call.op = "spot"
    /\ RequestsTo("spot", sent) # {}
    /\ ret.kind = "ok" /\ ret.value.op = "spot"
    /\ HasKey(cache["hourly"], call.key)
    /\ EntryOf(cache["hourly"], call.key).value.op = "hourly"
    /\ EntryOf(cache["hourly"], call.key).value.at + 3600 > call.at

\* the keys of the unexpired entries of a cache
LiveKeys(c, time) ==
    {c[i].key : i \in {j \in 1..Len(c) : time < c[j].value.at + 3600}}

\* of the unexpired entries of an operation's cache, the key least recently
\* returned by a call
LeastRecentlyUsed(op) ==
    LET live == SelectSeq(hist.lru, LAMBDA c :
                    c[1] = op /\ c[2] \in LiveKeys(cache[op], mono))
    IN  live[1][2]

\* C19: when a fetch misses and stores its response, and the operation's
\* cache is at capacity with unexpired entries, exactly the least recently used
\* of them (least recently read or inserted) is dropped; below capacity none
\* is.  The other unexpired entries remain.
C19_LRUEviction ==
    [][(/\ call'.op \in Ops
        /\ ret'.kind = "ok"
        /\ RequestsTo(call'.op, sent') # {}
        /\ call'.key \notin LiveKeys(cache[call'.op], mono)) =>
         LiveKeys(cache'[call'.op], mono') =
             (IF Cardinality(LiveKeys(cache[call'.op], mono)) = MaxSize(call'.op)
              THEN LiveKeys(cache[call'.op], mono) \ {LeastRecentlyUsed(call'.op)}
              ELSE LiveKeys(cache[call'.op], mono))
             \cup {call'.key}
       ]_vars

\* a third year fetched: the entry dropped was inserted after the one that
\* remains, which was read since
C19_Witness ==
    /\ call.op = "monthly"
    /\ ret.kind = "ok" /\ sent # <<>>
    /\ \E k \in YearArgs, k2 \in YearArgs \ {call.key} :
           /\ ~HasKey(cache["monthly"], k)
           /\ hist.fetched[<<"monthly", k>>].evicted
           /\ HasKey(cache["monthly"], k2)
           /\ call.at < EntryOf(cache["monthly"], k2).value.at + 3600
           /\ hist.fetched[<<"monthly", k>>].at > EntryOf(cache["monthly"], k2).value.at

(***************************************************************************)
(* SpecCapacity: calls in quick succession, within one reading of the      *)
(* clock, with more arguments than a cache holds.                          *)
(***************************************************************************)

CapacityScopes == {Calls("login", {1}) \cup Calls("daily", MonthArgs),
                   Calls("login", {1}) \cup Calls("monthly", YearArgs)}

InitCapacity ==
    /\ ClientInit
    /\ scope \in CapacityScopes
    /\ call = [op |-> "init"]
    /\ hist = HistInit

NextCapacity ==
    \/ Login
    \/ get_daily_measurements_by_month
    \/ get_monthly_measurements_by_year

SpecCapacity == InitCapacity /\ [][NextCapacity]_vars

\* C11: after any sequence of fetch calls, the daily, hourly-measurement and
\* hourly-spot-price caches each hold at most 4 entries and the monthly and
\* contract-data caches each hold at most 2 entries.
C11_CacheCapacity ==
    /\ Len(cache["daily"]) <= 4
    /\ Len(cache["hourly"]) <= 4
    /\ Len(cache["spot"]) <= 4
    /\ Len(cache["monthly"]) <= 2
    /\ Len(cache["contract"]) <= 2

\* a fifth month fetched while the daily cache holds four
C11_Witness ==
    /\ call.op = "daily"
    /\ ret.kind = "ok" /\ sent # <<>>
    /\ Len(cache["daily"]) = 4
    /\ \E k \in MonthArgs : ~HasKey(cache["daily"], k) /\ hist.fetched[<<"daily", k>>].evicted

(***************************************************************************)
(* SpecLifecycle: logins, failed logins and closes between the calls of a  *)
(* caller that asks for the contract data and the daily measurements of    *)
(* one month, within one reading of the monotonic clock.                   *)
(***************************************************************************)

InitLifecycle ==
    /\ ClientInit
    /\ scope = Calls("login", 1..MaxLogins) \cup Calls("contract", {<<>>})
                 \cup Calls("daily", {1})
    /\ call = [op |-> "init"]
    /\ hist = HistInit

NextLifecycle ==
    \/ WallAdvance
    \/ Login
    \/ LoginFails
    \/ IsSessionValid
    \/ Close
    \/ get_contract_data_json
    \/ get_daily_measurements_by_month

SpecLifecycle == InitLifecycle /\ [][NextLifecycle]_vars

\* C14: after close() and until the next successful login, the client does
\* not report the session as valid and no upstream request is issued with the
\* closed session's access token.
C14_SessionTeardown ==
    /\ (call.op = "is_session_valid" /\ session \in closed) => ret = Return(FALSE)
    /\ \A i \in 1..Len(sent) : sent[i].token \notin closed

\* C15: every upstream request carries the token of the session created by
\* the most recent successful login, and no upstream request is issued before
\* the first successful login: a fetch in that state fails before any request.
C15_TokenOrdering ==
    IsFetchCall =>
        /\ \A i \in 1..Len(sent) :
               hist.lastSession # None /\ sent[i].token = hist.lastSession
        /\ hist.lastSession = None => sent = <<>> /\ ret.kind = "error"

\* a measurement call after a second login: both of its requests carry the
\* token of the second session
C15_Witness ==
    /\ call.op = "daily"
    /\ hist.lastSession = 2
    /\ Len(sent) = 2
    /\ sent[1].token = 2 /\ sent[2].token = 2

\* C20: a failed login leaves the session handle and the time of the latest
\* login as they were, so is_session_valid() and the token of later requests
\* are those of before the attempt.
C20_FailedLogin ==
    [][(/\ call'.op = "login" /\ ret'.kind = "error"
        /\ (call.op # "login" \/ ret.kind # "error")) =>
         /\ UNCHANGED <<session, latest_login_time, closed, cache>>
         /\ IsLatestLoginWithinHour(latest_login_time', wall')
              = IsLatestLoginWithinHour(latest_login_time, wall)
         /\ ApiRequestHeaders(session') = ApiRequestHeaders(session)]_vars

\* a failed login after a successful one, the clock having moved on since
C20_Witness ==
    /\ call.op = "login" /\ ret.kind = "error"
    /\ session # None
    /\ latest_login_time # None /\ latest_login_time < wall

====
